---------------------------- MODULE Spec2Model ----------------------------
(***************************************************************************)
(* Financial field extraction of scan_lbc (scripts/scan_lbc.py) and the    *)
(* cache of the interactive scanner (scripts/interactive_scanner.py).      *)
(*                                                                         *)
(* Spec       : one call after another of parse_ad_page, from the price    *)
(*              cascade to the returned record.  The listing text is read  *)
(*              through regular-expression searches; each search is an     *)
(*              input of the step that runs it (no match, a match whose    *)
(*              amount does not parse, a match with an amount).            *)
(* SpecAmount : parse_amount applied to digit/separator strings.           *)
(* SpecLocate : parse_amounts_near_keyword applied to a text, in strict    *)
(*              and in lenient mode, followed by                            *)
(*              detect_period_from_snippet on the snippet it returns.       *)
(* SpecFetch  : one call of fetch, GET by GET.                             *)
(* SpecCache  : a PropertyCache and any sequence of calls of its methods.  *)
(* SpecScanner: the interactive scanner from its start on a cache file,    *)
(*              through the menu and the detail view.                      *)
(*                                                                         *)
(* Units.  Python floats are modelled by exact decimals:                   *)
(*   - amounts read from the text, annual figures : integer cents          *)
(*   - monthly_rent, monthly_charges before the final rounding            *)
(*     (a division by 12.0 may have happened)      : twelfths of a cent    *)
(*   - price                                       : whole euros           *)
(*   - yields in the record                        : hundredths of a       *)
(*                                                   percent               *)
(* round(x, 2) rounds to the nearest hundredth; on an exact decimal tie    *)
(* the double nearest to x decides the side in Python, so a tie is a       *)
(* choice between the two neighbours.                                      *)
(***************************************************************************)
EXTENDS Integers, Sequences, FiniteSets, TLC

VARIABLES
    pc,               \* position in parse_ad_page
    price_list,       \* ad_data's price list: empty (None) or one price (euros)
    m,                \* local m, the last re.search of the rent and charges rules
    price,            \* local price            (euros)
    loyer,            \* local loyer            (cents)
    monthly_rent,     \* local monthly_rent     (twelfths of a cent)
    taxe,             \* local taxe             (cents)
    taxe_period,      \* local taxe_period
    charges,          \* local charges          (cents)
    charges_period,   \* local charges_period
    monthly_charges,  \* local monthly_charges  (twelfths of a cent)
    taxe_annual,      \* local taxe_annual      (cents)
    record,           \* the dict returned by parse_ad_page
    snippet,          \* local snippet of rent rule 4, while the rule reads it
    raw,              \* parse_amount: argument
    v,                \* parse_amount: local v
    amount,           \* parse_amount: returned value
    apc,              \* parse_amount: position
    text,             \* parse_amounts_near_keyword: argument text
    strict,           \* parse_amounts_near_keyword: argument strict
    start,            \* parse_amounts_near_keyword: local start
    idx,              \* parse_amounts_near_keyword: local idx
    search_snippet,   \* parse_amounts_near_keyword: local search_snippet
    match,            \* parse_amounts_near_keyword: local m
    located,          \* parse_amounts_near_keyword: returned pair
    snip_period,      \* detect_period_from_snippet: returned value
    lpc,              \* parse_amounts_near_keyword: position
    fpc,              \* fetch: position
    playwright_render,\* fetch: argument playwright_render
    resp,             \* fetch: local resp, None or a response's status code
    attempt,          \* fetch: the retries started so far (loop of line 93)
    sent,             \* fetch: the GET requests sent, with what came back
    data,             \* PropertyCache.data: the records by URL
    cache_file,       \* the cache file on disk
    call,             \* PropertyCache: the method called last
    ret,              \* PropertyCache: what that call returned
    mpc,              \* interactive scanner: position in main and its menu
    properties,       \* interactive scanner: the listed records (their URLs)
    url               \* show_property_detail: local url

pvars == <<pc, price_list, m, price, loyer, monthly_rent, taxe, taxe_period, charges,
           charges_period, monthly_charges, taxe_annual, record, snippet>>
avars == <<raw, v, amount, apc>>
lvars == <<text, strict, start, idx, search_snippet, match, located, snip_period, lpc>>
fvars == <<fpc, playwright_render, resp, attempt, sent>>
cvars == <<data, cache_file, call, ret>>
mvars == <<mpc, properties, url>>
vars == <<pc, price_list, m, price, loyer, monthly_rent, taxe, taxe_period, charges,
          charges_period, monthly_charges, taxe_annual, record, snippet,
          raw, v, amount, apc,
          text, strict, start, idx, search_snippet, match, located, snip_period, lpc,
          fpc, playwright_render, resp, attempt, sent,
          data, cache_file, call, ret, mpc, properties, url>>

---------------------------------------------------------------------------
(* Python's None and a present value.                                      *)
None == <<>>
Some(x) == <<x>>
Val(o) == o[1]
(* Truth value of an optional number: None and 0.0 are false.              *)
Truthy(o) == o # None /\ Val(o) # 0

---------------------------------------------------------------------------
(* Program constants (euros, percent).                                     *)
MonthlyMin == 300
MonthlyMax == 3000
AnnualMin == 3600
AnnualMax == 36000
MaxYield == 20
MinSalePrice == 10000
Cents(euros) == euros * 100

---------------------------------------------------------------------------
(* Inputs of the searches.                                                 *)

(* Structured prices of the embedded ad data and prices found in the text  *)
(* (euros).                                                                *)
StructPrices == {-100000, 0, 48000, 150000, 90000000}
TextPrices == {0, 10000, 48000, 150000, 90000000}
(* Amounts a rent pattern can capture (cents).                             *)
RentAmounts == {0, 29999, 30000, 80000, 300000, 300001, 359999, 360000,
                360018, 1000000, 3600000, 3600001}
(* Amounts found after a charges or property-tax keyword (cents).          *)
ChargeAmounts == {0, 8000, 96000, 100000}
TaxAmounts == {0, 10000, 120000}

(* parse_amount of a captured group: a value, or None when float() fails.  *)
Parsed(S) == {None} \cup {Some(x) : x \in S}
(* A search: no match (None), or a match with its parsed group.            *)
Matches(S) == {None} \cup {Some(a) : a \in Parsed(S)}

(* A snippet is read only through the period markers it contains.  A       *)
(* marker that contains another one brings it along ("eur/mois" stands for *)
(* the euro sign followed by "/mois").  A snippet holds at most MaxMarkers *)
(* markers.                                                                *)
MaxMarkers == 3
Markers == {"par mois", "/mois", "eur/mois", "mois", "par an", "/an", "annuel"}
Snippets == {s \in SUBSET Markers :
                /\ Cardinality(s) <= MaxMarkers
                /\ "eur/mois" \in s => "/mois" \in s
                /\ "/mois" \in s => "mois" \in s
                /\ "par mois" \in s => "mois" \in s}

(* parse_amounts_near_keyword: (None, None), or the parsed first amount    *)
(* after an occurrence of the keyword with the snippet it was found in.    *)
NoHit == [val |-> None, snip |-> None]
Located(S) == {NoHit} \cup [val : Parsed(S), snip : {Some(s) : s \in Snippets}]

---------------------------------------------------------------------------
(* detect_period_from_snippet.  Python reads the first condition as        *)
(* A or B or C or (D and E).                                               *)
DetectPeriod(s) ==
    IF \/ "par mois" \in s
       \/ "/mois" \in s
       \/ "eur/mois" \in s
       \/ ("mois" \in s /\ "par an" \notin s)
    THEN "monthly"
    ELSE IF "par an" \in s \/ "/an" \in s \/ "annuel" \in s \/ "par an" \in s
         THEN "annual"
         ELSE "unknown"

(* snippet or "" *)
OrEmpty(snip) == IF snip = None THEN {} ELSE Val(snip)

---------------------------------------------------------------------------
(* Exact arithmetic on the quotients the code forms with floats.           *)

Abs(x) == IF x < 0 THEN -x ELSE x

(* n/d > k, for d # 0 *)
RatGT(n, d, k) == IF d > 0 THEN n > k * d ELSE n < k * d

(* The integer nearest to n/d (d # 0); on a tie the upper neighbour when   *)
(* up, the lower one otherwise.                                            *)
RoundDiv(n, d, up) ==
    LET nn == IF d < 0 THEN -n ELSE n
        dd == Abs(d)
        q == nn \div dd
        r == nn % dd
    IN  IF 2 * r > dd \/ (2 * r = dd /\ up) THEN q + 1 ELSE q

(* x / 12.0 and x as monthly values, in twelfths of a cent *)
Twelfth(cents) == cents
Whole(cents) == cents * 12

---------------------------------------------------------------------------
(* parse_ad_page, lines 336-362: the price.                                *)

SetMax(S) == CHOOSE x \in S : \A y \in S : y <= x

(* the largest amount of the page above MinSalePrice, if any *)
LargestAmount(found) ==
    LET amounts == {Val(a) : a \in {b \in found : Truthy(b) /\ Val(b) > MinSalePrice}}
    IN  IF amounts # {} THEN Some(SetMax(amounts)) ELSE None

(* lines 337-344: the price of the embedded ad data *)
PriceStructured ==
    /\ pc = "price_json"
    /\ price_list' \in Parsed(StructPrices)
    /\ price' = price_list'
    /\ pc' = "price_kw1"
    /\ UNCHANGED <<m, loyer, monthly_rent, taxe, taxe_period, charges,
                   charges_period, monthly_charges, taxe_annual, record>>

(* price_keywords, line 348, as positions of the loop of lines 349-352 *)
PriceKw == <<"price_kw1", "price_kw2", "price_kw3">>

(* PriceKeyword that runs whatever the structured data gave. *)
PriceKeyword_Always(k) ==
    /\ pc = PriceKw[k]
    /\ IF ~Truthy(price)
       THEN \E r \in Parsed(TextPrices) : price' = r
       ELSE price' = price
    /\ pc' = IF k < Len(PriceKw) THEN PriceKw[k + 1] ELSE "price_max"
    /\ UNCHANGED <<price_list, m, loyer, monthly_rent, taxe, taxe_period,
                   charges, charges_period, monthly_charges, taxe_annual, record>>

(* lines 349-352, the iteration for keyword k: price, _ = ...; if price:   *)
(* break.  The loop is entered when the ad data gave no price (line 346),  *)
(* and an iteration runs when no earlier one gave a true price.            *)
PriceKeyword(k) ==
    /\ pc = PriceKw[k]
    /\ IF price_list = None /\ ~Truthy(price)
       THEN \E r \in Parsed(TextPrices) : price' = r
       ELSE price' = price
    /\ pc' = IF k < Len(PriceKw) THEN PriceKw[k + 1] ELSE "price_max"
    /\ UNCHANGED <<price_list, m, loyer, monthly_rent, taxe, taxe_period,
                   charges, charges_period, monthly_charges, taxe_annual, record>>

(* lines 354-362 *)
PriceFallback ==
    /\ pc = "price_max"
    /\ IF price = None
       THEN \E found \in SUBSET Parsed(TextPrices) : price' = LargestAmount(found)
       ELSE price' = price
    /\ pc' = "rule1"
    /\ UNCHANGED <<price_list, m, loyer, monthly_rent, taxe, taxe_period,
                   charges, charges_period, monthly_charges, taxe_annual, record>>

---------------------------------------------------------------------------
(* parse_ad_page, lines 364-447: the rent cascade.  Each rule is one       *)
(* re.search, whose outcome is kept in m.                                  *)

(* InRange without the upper limit. *)
InRange_NoUpper(o, lo, hi) == Truthy(o) /\ Cents(lo) <= Val(o)

(* loyer and lo <= loyer <= hi, for limits in euros *)
InRange(o, lo, hi) == Truthy(o) /\ Cents(lo) <= Val(o) /\ Val(o) <= Cents(hi)

(* lines 372-380 *)
Rule1 ==
    /\ pc = "rule1"
    /\ m' \in Matches(RentAmounts)
    /\ IF m' # None
       THEN IF InRange(Val(m'), AnnualMin, AnnualMax)
            THEN /\ loyer' = Val(m')
                 /\ monthly_rent' = Some(Twelfth(Val(Val(m'))))
            ELSE /\ loyer' = None
                 /\ monthly_rent' = None
       ELSE /\ loyer' = None
            /\ monthly_rent' = None
    /\ pc' = "rule2"
    /\ UNCHANGED <<price_list, price, taxe, taxe_period, charges, charges_period,
                   monthly_charges, taxe_annual, record>>

(* Rule2 that runs although an earlier rule gave the rent. *)
Rule2_Override ==
    /\ pc = "rule2"
    /\ m' \in Matches(RentAmounts)
    /\ IF m' # None /\ InRange(Val(m'), MonthlyMin, MonthlyMax)
       THEN monthly_rent' = Some(Whole(Val(Val(m'))))
       ELSE monthly_rent' = None
    /\ pc' = "rule3"
    /\ UNCHANGED <<price_list, price, loyer, taxe, taxe_period, charges,
                   charges_period, monthly_charges, taxe_annual, record>>

(* lines 382-391 *)
Rule2 ==
    /\ pc = "rule2"
    /\ IF monthly_rent = None
       THEN /\ m' \in Matches(RentAmounts)
            /\ IF m' # None /\ InRange(Val(m'), MonthlyMin, MonthlyMax)
               THEN monthly_rent' = Some(Whole(Val(Val(m'))))
               ELSE monthly_rent' = None
       ELSE UNCHANGED <<m, monthly_rent>>
    /\ pc' = "rule3"
    /\ UNCHANGED <<price_list, price, loyer, taxe, taxe_period, charges,
                   charges_period, monthly_charges, taxe_annual, record>>

(* lines 393-403 *)
Rule3 ==
    /\ pc = "rule3"
    /\ IF monthly_rent = None
       THEN /\ m' \in Matches(RentAmounts)
            /\ IF m' # None
               THEN IF InRange(Val(m'), AnnualMin, AnnualMax)
                    THEN /\ loyer' = Val(m')
                         /\ monthly_rent' = Some(Twelfth(Val(Val(m'))))
                    ELSE /\ loyer' = None
                         /\ monthly_rent' = None
               ELSE UNCHANGED <<loyer, monthly_rent>>
       ELSE UNCHANGED <<m, loyer, monthly_rent>>
    /\ pc' = "rule4"
    /\ UNCHANGED <<price_list, price, taxe, taxe_period, charges, charges_period,
                   monthly_charges, taxe_annual, record>>

(* line 413: the inline test of rule 4 on its snippet *)
Rule4Annual(s) ==
    "annuel" \in s \/ "par an" \in s \/ "/an" \in s

(* lines 405-412: the search of rule 4, the amount and the snippet of its  *)
(* match                                                                   *)
Rule4Search ==
    /\ pc = "rule4"
    /\ IF monthly_rent = None
       THEN /\ m' \in Matches(RentAmounts)
            /\ IF m' # None
               THEN /\ loyer' = Val(m')
                    /\ snippet' \in {Some(s) : s \in Snippets}
               ELSE UNCHANGED <<loyer, snippet>>
       ELSE UNCHANGED <<m, loyer, snippet>>
    /\ pc' = "rule4_period"
    /\ UNCHANGED <<price_list, price, monthly_rent, taxe, taxe_period, charges,
                   charges_period, monthly_charges, taxe_annual, record>>

(* lines 413-424: the inline test and the range check of rule 4; the       *)
(* snippet is not read after them                                          *)
Rule4Classify ==
    /\ pc = "rule4_period"
    /\ IF monthly_rent = None /\ m # None
       THEN IF Rule4Annual(Val(snippet))
            THEN IF InRange(loyer, AnnualMin, AnnualMax)
                 THEN /\ monthly_rent' = Some(Twelfth(Val(loyer)))
                      /\ UNCHANGED loyer
                 ELSE /\ loyer' = None
                      /\ monthly_rent' = None
            ELSE IF InRange(loyer, MonthlyMin, MonthlyMax)
                 THEN /\ monthly_rent' = Some(Whole(Val(loyer)))
                      /\ UNCHANGED loyer
                 ELSE /\ loyer' = None
                      /\ monthly_rent' = None
       ELSE UNCHANGED <<loyer, monthly_rent>>
    /\ snippet' = None
    /\ pc' = "rule5"
    /\ UNCHANGED <<price_list, m, price, taxe, taxe_period, charges, charges_period,
                   monthly_charges, taxe_annual, record>>

(* lines 426-436 *)
Rule5 ==
    /\ pc = "rule5"
    /\ IF monthly_rent = None
       THEN /\ m' \in Matches(RentAmounts)
            /\ IF m' # None
               THEN IF InRange(Val(m'), MonthlyMin, MonthlyMax)
                    THEN /\ loyer' = Val(m')
                         /\ monthly_rent' = Some(Whole(Val(Val(m'))))
                    ELSE /\ loyer' = None
                         /\ monthly_rent' = None
               ELSE UNCHANGED <<loyer, monthly_rent>>
       ELSE UNCHANGED <<m, loyer, monthly_rent>>
    /\ pc' = "rule6"
    /\ UNCHANGED <<price_list, price, taxe, taxe_period, charges, charges_period,
                   monthly_charges, taxe_annual, record>>

(* lines 438-447 *)
Rule6 ==
    /\ pc = "rule6"
    /\ IF monthly_rent = None
       THEN /\ m' \in Matches(RentAmounts)
            /\ IF m' # None /\ InRange(Val(m'), MonthlyMin, MonthlyMax)
               THEN monthly_rent' = Some(Whole(Val(Val(m'))))
               ELSE monthly_rent' = None
       ELSE UNCHANGED <<m, monthly_rent>>
    /\ pc' = "taxe"
    /\ UNCHANGED <<price_list, price, loyer, taxe, taxe_period, charges,
                   charges_period, monthly_charges, taxe_annual, record>>

---------------------------------------------------------------------------
(* parse_ad_page, lines 449-478: property tax and charges.                 *)

(* lines 450-453: the second search runs when the first gave no amount *)
TaxeSearch ==
    /\ pc = "taxe"
    /\ \E first \in Located(TaxAmounts) :
          IF first.val # None
          THEN /\ taxe' = first.val
               /\ taxe_period' = DetectPeriod(OrEmpty(first.snip))
          ELSE \E second \in Located(TaxAmounts) :
                  /\ taxe' = second.val
                  /\ taxe_period' = DetectPeriod(OrEmpty(second.snip))
    /\ pc' = "charges"
    /\ UNCHANGED <<price_list, m, price, loyer, monthly_rent, charges,
                   charges_period, monthly_charges, taxe_annual, record>>

(* lines 461-464: pattern 1, "charges <amount> EUR"; charges_period is     *)
(* detect_period_from_snippet(charges_snip or ""), line 478                *)
ChargesPattern1 ==
    /\ pc = "charges"
    /\ m' \in Matches(ChargeAmounts)
    /\ IF m' # None
       THEN /\ charges' = Val(m')
            /\ \E charges_snip \in Snippets :
                  charges_period' = DetectPeriod(charges_snip)
       ELSE /\ charges' = None
            /\ charges_period' = DetectPeriod({})
    /\ pc' = "charges_b"
    /\ UNCHANGED <<price_list, price, loyer, monthly_rent, taxe, taxe_period,
                   monthly_charges, taxe_annual, record>>

(* ChargesPattern2 that runs although pattern 1 matched. *)
ChargesPattern2_Override ==
    /\ pc = "charges_b"
    /\ m' \in Matches(ChargeAmounts)
    /\ IF m' # None
       THEN /\ charges' = Val(m')
            /\ \E charges_snip \in Snippets :
                  charges_period' = DetectPeriod(charges_snip)
       ELSE UNCHANGED <<charges, charges_period>>
    /\ pc' = "charges_kw1"
    /\ UNCHANGED <<price_list, price, loyer, monthly_rent, taxe, taxe_period,
                   monthly_charges, taxe_annual, record>>

(* lines 465-470: pattern 2, "<amount> EUR de charges", in the else branch *)
(* of pattern 1                                                            *)
ChargesPattern2 ==
    /\ pc = "charges_b"
    /\ IF m = None
       THEN /\ m' \in Matches(ChargeAmounts)
            /\ IF m' # None
               THEN /\ charges' = Val(m')
                    /\ \E charges_snip \in Snippets :
                          charges_period' = DetectPeriod(charges_snip)
               ELSE UNCHANGED <<charges, charges_period>>
       ELSE UNCHANGED <<m, charges, charges_period>>
    /\ pc' = "charges_kw1"
    /\ UNCHANGED <<price_list, price, loyer, monthly_rent, taxe, taxe_period,
                   monthly_charges, taxe_annual, record>>

(* the keywords of line 473, as positions of the loop of lines 473-476 *)
ChargesKw == <<"charges_kw1", "charges_kw2", "charges_kw3", "charges_kw4">>

(* lines 473-476, the iteration for keyword k, in the else branch of       *)
(* pattern 2: charges, charges_snip = ...; if charges is not None: break   *)
ChargesKeyword(k) ==
    /\ pc = ChargesKw[k]
    /\ IF m = None /\ charges = None
       THEN \E hit \in Located(ChargeAmounts) :
               /\ charges' = hit.val
               /\ charges_period' = DetectPeriod(OrEmpty(hit.snip))
       ELSE UNCHANGED <<charges, charges_period>>
    /\ pc' = IF k < Len(ChargesKw) THEN ChargesKw[k + 1] ELSE "normalize"
    /\ UNCHANGED <<price_list, m, price, loyer, monthly_rent, taxe,
                   taxe_period, monthly_charges, taxe_annual, record>>

(* lines 480-485 *)
MonthlyCharges(c, period) ==
    IF c # None
    THEN IF period = "annual" THEN Some(Twelfth(Val(c))) ELSE Some(Whole(Val(c)))
    ELSE None

(* lines 487-492 *)
TaxeAnnual(t, period) ==
    IF t # None
    THEN IF period = "monthly" THEN Some(Val(t) * 12) ELSE Some(Val(t))
    ELSE None

Normalize ==
    /\ pc = "normalize"
    /\ monthly_charges' = MonthlyCharges(charges, charges_period)
    /\ taxe_annual' = TaxeAnnual(taxe, taxe_period)
    /\ pc' = "yield"
    /\ UNCHANGED <<price_list, m, price, loyer, monthly_rent, taxe, taxe_period,
                   charges, charges_period, record>>

---------------------------------------------------------------------------
(* parse_ad_page, lines 494-550: annual figures, yields, rounding, and the *)
(* record.  The locals this part overwrites are carried in its result; the *)
(* variables keep what the cascades found.                                 *)

(* Annual with the figure taken from the monthly value as rounded for the  *)
(* record.                                                                 *)
Annual_FromRounded(mr) ==
    IF mr # None THEN Some(RoundDiv(Val(mr), 12, FALSE) * 12) ELSE None

(* lines 495-496: monthly_rent * 12.0, from twelfths of a cent to cents *)
Annual(mr) == IF mr # None THEN Some((Val(mr) * 12) \div 12) ELSE None

(* YieldStage with a rejection that caps the gross yield at MaxYield       *)
(* and keeps it.                                                           *)
YieldStage_KeepYield(p, mr, ar, ac, ta) ==
    IF Truthy(p) /\ Truthy(ar)
    THEN IF RatGT(Val(ar), Val(p), MaxYield)
         THEN [monthly_rent |-> None, annual_rent |-> None,
               annual_charges |-> ac, taxe_annual |-> ta,
               gross_yield |-> Some(<<MaxYield, 1>>), net_yield |-> None]
         ELSE LET ac0 == IF ac = None THEN Some(0) ELSE ac
                  ta0 == IF ta = None THEN Some(0) ELSE ta
              IN  [monthly_rent |-> mr, annual_rent |-> ar,
                   annual_charges |-> ac0, taxe_annual |-> ta0,
                   gross_yield |-> Some(<<Val(ar), Val(p)>>),
                   net_yield |-> Some(<<Val(ar) - Val(ac0) - Val(ta0), Val(p)>>)]
    ELSE [monthly_rent |-> mr, annual_rent |-> ar,
          annual_charges |-> ac, taxe_annual |-> ta,
          gross_yield |-> None, net_yield |-> None]

(* YieldStage with a rejection that drops the yields and keeps the rent.   *)
YieldStage_KeepRent(p, mr, ar, ac, ta) ==
    IF Truthy(p) /\ Truthy(ar)
    THEN IF RatGT(Val(ar), Val(p), MaxYield)
         THEN [monthly_rent |-> mr, annual_rent |-> ar,
               annual_charges |-> ac, taxe_annual |-> ta,
               gross_yield |-> None, net_yield |-> None]
         ELSE LET ac0 == IF ac = None THEN Some(0) ELSE ac
                  ta0 == IF ta = None THEN Some(0) ELSE ta
              IN  [monthly_rent |-> mr, annual_rent |-> ar,
                   annual_charges |-> ac0, taxe_annual |-> ta0,
                   gross_yield |-> Some(<<Val(ar), Val(p)>>),
                   net_yield |-> Some(<<Val(ar) - Val(ac0) - Val(ta0), Val(p)>>)]
    ELSE [monthly_rent |-> mr, annual_rent |-> ar,
          annual_charges |-> ac, taxe_annual |-> ta,
          gross_yield |-> None, net_yield |-> None]

(* YieldStage with a net yield that leaves the property tax out.           *)
YieldStage_NoTax(p, mr, ar, ac, ta) ==
    IF Truthy(p) /\ Truthy(ar)
    THEN IF RatGT(Val(ar), Val(p), MaxYield)
         THEN [monthly_rent |-> None, annual_rent |-> None,
               annual_charges |-> ac, taxe_annual |-> ta,
               gross_yield |-> None, net_yield |-> None]
         ELSE LET ac0 == IF ac = None THEN Some(0) ELSE ac
                  ta0 == IF ta = None THEN Some(0) ELSE ta
              IN  [monthly_rent |-> mr, annual_rent |-> ar,
                   annual_charges |-> ac0, taxe_annual |-> ta0,
                   gross_yield |-> Some(<<Val(ar), Val(p)>>),
                   net_yield |-> Some(<<Val(ar) - Val(ac0), Val(p)>>)]
    ELSE [monthly_rent |-> mr, annual_rent |-> ar,
          annual_charges |-> ac, taxe_annual |-> ta,
          gross_yield |-> None, net_yield |-> None]

(* YieldStage without the defaults of lines 512-515: the subtraction of an *)
(* absent amount raises, the except clause swallows it and net_yield stays *)
(* None.                                                                   *)
YieldStage_NoDefaults(p, mr, ar, ac, ta) ==
    IF Truthy(p) /\ Truthy(ar)
    THEN IF RatGT(Val(ar), Val(p), MaxYield)
         THEN [monthly_rent |-> None, annual_rent |-> None,
               annual_charges |-> ac, taxe_annual |-> ta,
               gross_yield |-> None, net_yield |-> None]
         ELSE [monthly_rent |-> mr, annual_rent |-> ar,
               annual_charges |-> ac, taxe_annual |-> ta,
               gross_yield |-> Some(<<Val(ar), Val(p)>>),
               net_yield |-> IF ac = None \/ ta = None THEN None
                             ELSE Some(<<Val(ar) - Val(ac) - Val(ta), Val(p)>>)]
    ELSE [monthly_rent |-> mr, annual_rent |-> ar,
          annual_charges |-> ac, taxe_annual |-> ta,
          gross_yield |-> None, net_yield |-> None]

(* lines 498-518.  A yield n/d percent is kept as the pair <<n, d>>.       *)
YieldStage(p, mr, ar, ac, ta) ==
    IF Truthy(p) /\ Truthy(ar)
    THEN IF RatGT(Val(ar), Val(p), MaxYield)
         THEN [monthly_rent |-> None, annual_rent |-> None,
               annual_charges |-> ac, taxe_annual |-> ta,
               gross_yield |-> None, net_yield |-> None]
         ELSE LET ac0 == IF ac = None THEN Some(0) ELSE ac
                  ta0 == IF ta = None THEN Some(0) ELSE ta
              IN  [monthly_rent |-> mr, annual_rent |-> ar,
                   annual_charges |-> ac0, taxe_annual |-> ta0,
                   gross_yield |-> Some(<<Val(ar), Val(p)>>),
                   net_yield |-> Some(<<Val(ar) - Val(ac0) - Val(ta0), Val(p)>>)]
    ELSE [monthly_rent |-> mr, annual_rent |-> ar,
          annual_charges |-> ac, taxe_annual |-> ta,
          gross_yield |-> None, net_yield |-> None]

(* round(y, 2) of a yield, in hundredths of a percent *)
RoundYield(y, up) ==
    IF y # None THEN Some(RoundDiv(Val(y)[1] * 100, Val(y)[2], up)) ELSE None

(* round(x, 2) of a monthly value, from twelfths of a cent to cents *)
RoundMonthly(mr, up) == IF mr # None THEN Some(RoundDiv(Val(mr), 12, up)) ELSE None

(* round(x, 2) of an amount that is whole cents or whole euros *)
RoundExact(x) == x

(* lines 520-550 *)
Rounded(p, y, mc, up) ==
    [price                |-> RoundExact(p),
     monthly_rent         |-> RoundMonthly(y.monthly_rent, up[1]),
     annual_rent          |-> RoundExact(y.annual_rent),
     monthly_charges      |-> RoundMonthly(mc, up[2]),
     annual_charges       |-> RoundExact(y.annual_charges),
     taxe_fonciere_annual |-> RoundExact(y.taxe_annual),
     gross_yield_pct      |-> RoundYield(y.gross_yield, up[3]),
     net_yield_pct        |-> RoundYield(y.net_yield, up[4])]

Finish ==
    /\ pc = "yield"
    /\ \E up \in [1..4 -> BOOLEAN] :
          record' = Rounded(price,
                            YieldStage(price, monthly_rent, Annual(monthly_rent),
                                       Annual(monthly_charges), taxe_annual),
                            monthly_charges, up)
    /\ pc' = "done"
    /\ UNCHANGED <<price_list, m, price, loyer, monthly_rent, taxe, taxe_period,
                   charges, charges_period, monthly_charges, taxe_annual>>

(* the next call of parse_ad_page starts with fresh locals *)
Call ==
    /\ pc = "done"
    /\ pc' = "price_json"
    /\ price_list' = None /\ m' = None
    /\ price' = None /\ loyer' = None /\ monthly_rent' = None
    /\ taxe' = None /\ taxe_period' = "unknown"
    /\ charges' = None /\ charges_period' = "unknown"
    /\ monthly_charges' = None /\ taxe_annual' = None
    /\ record' = None /\ snippet' = None

---------------------------------------------------------------------------
(* parse_amount, lines 238-300.  A string is a sequence of characters;     *)
(* NBSP is the non-breaking space U+00A0.  The returned float is the       *)
(* decimal n / 10^k, kept as <<n, k>> with no trailing zero in the         *)
(* fraction.                                                               *)

NBSP == "nbsp"
Digits == {"0", "1", "2", "3", "4", "5", "6", "7", "8", "9"}
DigitVal(c) ==
    CASE c = "0" -> 0 [] c = "1" -> 1 [] c = "2" -> 2 [] c = "3" -> 3
      [] c = "4" -> 4 [] c = "5" -> 5 [] c = "6" -> 6 [] c = "7" -> 7
      [] c = "8" -> 8 [] c = "9" -> 9

IsSpace(c) == c = " " \/ c = NBSP

(* str.strip() *)
RECURSIVE LStrip(_)
LStrip(s) == IF s # <<>> /\ IsSpace(Head(s)) THEN LStrip(Tail(s)) ELSE s
RECURSIVE RStrip(_)
RStrip(s) ==
    IF s # <<>> /\ IsSpace(s[Len(s)]) THEN RStrip(SubSeq(s, 1, Len(s) - 1)) ELSE s
Strip(s) == RStrip(LStrip(s))

(* str.replace(a, b) for single characters; b = "" removes a *)
Replace(s, a, b) == [i \in 1..Len(s) |-> IF s[i] = a THEN b ELSE s[i]]
Remove(s, a) == SelectSeq(s, LAMBDA c : c # a)

Contains(s, a) == \E i \in 1..Len(s) : s[i] = a

(* str.rfind(a): the last position of a, counted from 1; 0 when absent     *)
(* (Python counts from 0 and gives -1).                                    *)
RFind(s, a) ==
    IF Contains(s, a) THEN CHOOSE i \in 1..Len(s) :
                              s[i] = a /\ \A j \in (i + 1)..Len(s) : s[j] # a
    ELSE 0

(* digits_after, lines 262-270 *)
RECURSIVE DigitsAfter(_, _)
DigitsAfter(s, pos) ==
    IF pos + 1 <= Len(s) /\ s[pos + 1] \in Digits
    THEN 1 + DigitsAfter(s, pos + 1)
    ELSE 0

(* lines 249-250 *)
Stripped(r) == Replace(Strip(r), NBSP, " ")

(* IsDecimal that also takes 3 digits for a decimal part *)
IsDecimal_Loose(n) == 1 <= n /\ n <= 3

(* a separator followed by 1 or 2 digits is the decimal separator *)
IsDecimal(n) == 1 <= n /\ n <= 2

(* lines 253-295 *)
Cleaned(s) ==
    IF Contains(s, ",") \/ Contains(s, ".")
    THEN LET last_comma == RFind(s, ",")
             last_dot == RFind(s, ".")
             comma_digits == IF last_comma >= 1 THEN DigitsAfter(s, last_comma) ELSE 0
             dot_digits == IF last_dot >= 1 THEN DigitsAfter(s, last_dot) ELSE 0
         IN  IF last_comma > last_dot
             THEN IF IsDecimal(comma_digits)
                  THEN Replace(Remove(Remove(s, " "), "."), ",", ".")
                  ELSE Remove(Remove(Remove(s, " "), ","), ".")
             ELSE IF IsDecimal(dot_digits)
                  THEN Remove(Remove(s, " "), ",")
                  ELSE Remove(Remove(Remove(s, " "), ","), ".")
    ELSE Remove(s, " ")

RECURSIVE ToInt(_)
ToInt(ds) ==
    IF ds = <<>> THEN 0 ELSE ToInt(SubSeq(ds, 1, Len(ds) - 1)) * 10 + DigitVal(ds[Len(ds)])

RECURSIVE Canonical(_)
Canonical(ds) ==
    IF ds # <<>> /\ ds[Len(ds)] = "0" THEN Canonical(SubSeq(ds, 1, Len(ds) - 1)) ELSE ds

(* the decimal with integer digits ip and fraction digits fp *)
Decimal(ip, fp) == <<ToInt(ip \o Canonical(fp)), Len(Canonical(fp))>>

(* float(s), lines 297-300: s is digits with at most one point and at      *)
(* least one digit; anything else raises and None is returned.             *)
PyFloat(s) ==
    LET dot == RFind(s, ".")
        ip == IF dot = 0 THEN s ELSE SubSeq(s, 1, dot - 1)
        fp == IF dot = 0 THEN <<>> ELSE SubSeq(s, dot + 1, Len(s))
    IN  IF /\ \A i \in 1..Len(ip) : ip[i] \in Digits
           /\ \A i \in 1..Len(fp) : fp[i] \in Digits
           /\ Len(ip) + Len(fp) >= 1
        THEN Some(Decimal(ip, fp))
        ELSE None

(* The strings parse_amount is applied to: every string of at most MaxLen  *)
(* characters of Alphabet, and the literals of the documentation.          *)
MaxLen == 5
Alphabet == {"0", "1", "2", ",", ".", " ", NBSP}
Strings == UNION {[1..n -> Alphabet] : n \in 0..MaxLen}
Literals ==
    { <<"4", " ", "5", "2", "4", ",", "9", "2">>,
      <<"4", ".", "5", "2", "4", ",", "9", "2">>,
      <<"4", " ", "5", "2", "4", ".", "9", "2">>,
      <<"4", "5", "2", "4", ".", "9", "2">>,
      <<"3", ".", "1", "2", "5">>,
      <<"1", "2", "3", "4", ".", "5", "6">>,
      <<"1", "2", ",", "5">>,
      <<"1", ",", "2", "3", "4", ",", "5", "6">>,
      <<"1", ".", "2", "3", "4", ".", "5">>,
      <<"1", "5", "0", NBSP, "0", "0", "0">> }

(* lines 249-250 *)
AmountStrip ==
    /\ apc = "strip"
    /\ v' = Stripped(raw)
    /\ apc' = "clean"
    /\ UNCHANGED <<raw, amount>>

(* lines 253-295 *)
AmountClean ==
    /\ apc = "clean"
    /\ v' = Cleaned(v)
    /\ apc' = "float"
    /\ UNCHANGED <<raw, amount>>

(* lines 297-300 *)
AmountFloat ==
    /\ apc = "float"
    /\ amount' = PyFloat(v)
    /\ apc' = "ret"
    /\ UNCHANGED <<raw, v>>

---------------------------------------------------------------------------
(* parse_amounts_near_keyword, lines 199-235, and its caller's             *)
(* detect_period_from_snippet(snippet or "").                              *)
(*                                                                         *)
(* A text is a sequence of tokens; each token stands for a fixed string:   *)
(*   "kw"       the keyword                          "prix"                *)
(*   "a1"       an amount                            " 9 600 €"            *)
(*   "a2"       an amount                            "150 000€"            *)
(*   "bad"      an amount shape that does not parse  "1.234.5€"            *)
(*   "a1200"    an unbroken run of four digits       "  1200 €"            *)
(*   "a80"      an amount of two digits              "    80 €"            *)
(*   "par mois" "par an" "annuel" "mois"  period markers, "par an" and     *)
(*              "annuel" after two spaces                                  *)
(*   "gap48"    48 characters without digit, keyword or marker             *)
(*   "gap300"   300 such characters                                        *)
(* Offsets count characters from 0, as in Python.                          *)

KwLen == 4
StrictWindow == 50
Window == 300

Tokens == {"kw", "a1", "a2", "bad", "a1200", "a80", "par mois", "par an",
           "annuel", "mois", "gap48", "gap300"}

(* len() of a token's string *)
Width(t) ==
    CASE t = "kw" -> KwLen
      [] t = "mois" -> 4
      [] t = "gap48" -> 48
      [] t = "gap300" -> 300
      [] OTHER -> 8

(* AMOUNT_RE on a token's string: every offset at which a match starts,    *)
(* with its group 1.  Every match ends with the token (the currency sign). *)
AmountMatches(t) ==
    CASE t = "a1" -> { <<1, <<"9", " ", "6", "0", "0">> >>,
                       <<3, <<"6", "0", "0">> >>,
                       <<4, <<"0", "0">> >>,
                       <<5, <<"0">> >> }
      [] t = "a2" -> { <<0, <<"1", "5", "0", " ", "0", "0", "0">> >>,
                       <<1, <<"5", "0", " ", "0", "0", "0">> >>,
                       <<2, <<"0", " ", "0", "0", "0">> >>,
                       <<4, <<"0", "0", "0">> >>,
                       <<5, <<"0", "0">> >>,
                       <<6, <<"0">> >> }
      [] t = "bad" -> { <<0, <<"1", ".", "2", "3", "4", ".", "5">> >>,
                        <<2, <<"2", "3", "4", ".", "5">> >>,
                        <<3, <<"3", "4", ".", "5">> >>,
                        <<4, <<"4", ".", "5">> >>,
                        <<6, <<"5">> >> }
      [] t = "a1200" -> { <<3, <<"2", "0", "0">> >>,
                          <<4, <<"0", "0">> >>,
                          <<5, <<"0">> >> }
      [] t = "a80" -> { <<4, <<"8", "0">> >>,
                        <<5, <<"0">> >> }
      [] OTHER -> {}

(* The period markers in a token's string: <<marker, first offset, offset  *)
(* past its end>>.                                                         *)
MarkerSpans(t) ==
    CASE t = "par mois" -> { <<"par mois", 0, 8>>, <<"mois", 4, 8>> }
      [] t = "mois" -> { <<"mois", 0, 4>> }
      [] t = "par an" -> { <<"par an", 2, 8>> }
      [] t = "annuel" -> { <<"annuel", 2, 8>> }
      [] OTHER -> {}

(* the offset of token j of txt; Off(txt, Len(txt) + 1) is len(txt) *)
RECURSIVE Off(_, _)
Off(txt, j) == IF j = 1 THEN 0 ELSE Off(txt, j - 1) + Width(txt[j - 1])
TextLen(txt) == Off(txt, Len(txt) + 1)

Min(a, b) == IF a <= b THEN a ELSE b
Max(a, b) == IF a >= b THEN a ELSE b
SetMin(S) == CHOOSE x \in S : \A y \in S : x <= y

(* text_lower.find(keyword_lower, from): -1 when there is no occurrence *)
Find(txt, from) ==
    LET hits == {Off(txt, j) : j \in {k \in 1..Len(txt) : txt[k] = "kw" /\ Off(txt, k) >= from}}
    IN  IF hits = {} THEN -1 ELSE SetMin(hits)

(* lines 216-225: the slice text[lo:hi] taken for the occurrence at i *)
Snippet(txt, i, st) ==
    IF st
    THEN [lo |-> i, hi |-> Min(TextLen(txt), i + KwLen + StrictWindow)]
    ELSE [lo |-> Max(0, i - Window), hi |-> Min(TextLen(txt), i + Window)]

(* line 228: AMOUNT_RE.search(search_snippet[len(keyword):]), the leftmost *)
(* match of the slice text[from:hi]; start is counted from from            *)
Search(txt, from, hi) ==
    LET found == UNION {{<<Off(txt, j) + b[1], b[2]>> :
                            b \in {c \in AmountMatches(txt[j]) :
                                      /\ Off(txt, j) + c[1] >= from
                                      /\ Off(txt, j) + Width(txt[j]) <= hi}} :
                        j \in 1..Len(txt)}
    IN  IF found = {} THEN None
        ELSE LET first == CHOOSE f \in found : \A g \in found : f[1] <= g[1]
             IN  Some([start |-> first[1] - from, group |-> first[2]])

(* the period markers of the slice text[lo:hi] *)
MarkersIn(txt, sn) ==
    {sp[1] : sp \in UNION {{q \in MarkerSpans(txt[j]) :
                               /\ Off(txt, j) + q[2] >= sn.lo
                               /\ Off(txt, j) + q[3] <= sn.hi} : j \in 1..Len(txt)}}

(* parse_amount(raw), lines 238-300 *)
ParseAmount(s) == PyFloat(Cleaned(Stripped(s)))

(* lines 210-225, 235: the next occurrence and its snippet *)
LocateFind ==
    /\ lpc = "find"
    /\ idx' = Find(text, start)
    /\ IF idx' = -1
       THEN /\ located' = NoHit
            /\ lpc' = "ret"
            /\ UNCHANGED search_snippet
       ELSE /\ search_snippet' = Snippet(text, idx', strict)
            /\ lpc' = "search"
            /\ UNCHANGED located
    /\ UNCHANGED <<text, strict, start, match, snip_period>>

(* lines 228-233: the search of the snippet; a match ends the scan *)
LocateSearch ==
    /\ lpc = "search"
    /\ match' = Search(text, search_snippet.lo + KwLen, search_snippet.hi)
    /\ IF match' # None
       THEN /\ located' = [val |-> ParseAmount(Val(match').group),
                           snip |-> Some(MarkersIn(text, search_snippet))]
            /\ lpc' = "ret"
            /\ UNCHANGED start
       ELSE /\ start' = idx + 1
            /\ lpc' = "find"
            /\ UNCHANGED located
    /\ UNCHANGED <<text, strict, idx, search_snippet, snip_period>>

(* detect_period_from_snippet(snip or ""), as in lines 453 and 478 *)
Detect ==
    /\ lpc = "ret"
    /\ snip_period' = DetectPeriod(OrEmpty(located.snip))
    /\ lpc' = "done"
    /\ UNCHANGED <<text, strict, start, idx, search_snippet, match, located>>

(* The texts: every sequence of at most MaxText tokens, among them the     *)
(* listing "Prix de vente : 150 000 € / Loyer annuel : 9 600 €" and the   *)
(* listing "charges 80 € par mois / taxe foncière : 1200 €", each in both *)
(* orders (the keyword stands for the one that is searched).               *)
MaxText == 4
Texts == UNION {[1..n -> Tokens] : n \in 0..MaxText}
PriceFirst == <<"kw", "a2", "annuel", "a1">>
RentFirst == <<"annuel", "a1", "kw", "a2">>
ChargesFirst == <<"a80", "par mois", "kw", "a1200">>
TaxFirst == <<"kw", "a1200", "a80", "par mois">>

InitIdle ==
    /\ text = <<>> /\ strict = FALSE /\ start = 0 /\ idx = 0
    /\ search_snippet = [lo |-> 0, hi |-> 0]
    /\ match = None /\ located = NoHit /\ snip_period = "unknown"
    /\ lpc = "idle"

---------------------------------------------------------------------------
(* fetch, lines 50-120.  A GET either raises or brings a response, read    *)
(* through its status code; resp is None after a GET that raised.          *)

MaxRetries == 2
StatusCodes == {200, 403, 404, 500}
Responses == {None} \cup {Some(c) : c \in StatusCodes}

(* one GET: the headers it was sent with and what came back *)
Get(headers, r) == [headers |-> headers, resp |-> r]

(* lines 62-80: the Playwright path returns the page, or fails and falls   *)
(* back to the requests path                                               *)
FetchPlaywright ==
    /\ fpc = "playwright"
    /\ IF playwright_render
       THEN fpc' \in {"returned", "get"}
       ELSE fpc' = "get"
    /\ UNCHANGED <<playwright_render, resp, attempt, sent>>

(* lines 84-91: the first GET *)
FirstGet ==
    /\ fpc = "get"
    /\ resp' \in Responses
    /\ sent' = Append(sent, Get("HEADERS", resp'))
    /\ fpc' = IF resp' = Some(403) THEN "retry" ELSE "fallback"
    /\ UNCHANGED <<playwright_render, attempt>>

(* lines 93-105: one iteration of the retry loop, with a rotated           *)
(* User-Agent; a 200 breaks out of the loop                                *)
Retry ==
    /\ fpc = "retry"
    /\ resp' \in Responses
    /\ sent' = Append(sent, Get("rotated", resp'))
    /\ attempt' = attempt + 1
    /\ fpc' = IF resp' = Some(200) \/ attempt' = MaxRetries THEN "fallback" ELSE "retry"
    /\ UNCHANGED playwright_render

(* lines 107-108: a GET without headers when resp is None; an exception    *)
(* of this GET leaves fetch                                                *)
FallbackGet ==
    /\ fpc = "fallback"
    /\ IF resp = None
       THEN \E r \in Responses :
               /\ sent' = Append(sent, Get("none", r))
               /\ resp' = r
               /\ fpc' = IF r = None THEN "raised" ELSE "status"
       ELSE /\ fpc' = "status"
            /\ UNCHANGED <<resp, sent>>
    /\ UNCHANGED <<playwright_render, attempt>>

(* lines 110-120: raise_for_status raises for a 4xx or 5xx status;         *)
(* otherwise fetch returns the page                                        *)
RaiseForStatus ==
    /\ fpc = "status"
    /\ fpc' = IF Val(resp) >= 400 THEN "raised" ELSE "returned"
    /\ UNCHANGED <<playwright_render, resp, attempt, sent>>

InitFetchIdle ==
    /\ fpc = "idle" /\ playwright_render = FALSE
    /\ resp = None /\ attempt = 0 /\ sent = <<>>

---------------------------------------------------------------------------
(* PropertyCache, interactive_scanner.py lines 26-100.  A dict is a        *)
(* function from its keys; a stored record is the dict parse_ad_page       *)
(* returned, to which set_analysis and set_status add a key each.          *)

Urls == {"u1", "u2"}
Analyses == {"analysis"}
StatusMarks == {"interested"}

(* scan_lbc.py lines 539-550: the record of a listing at 150 000 euros,    *)
(* with a monthly rent of 800 euros or without a rent (units as in record) *)
Listing(u, rent) ==
    [url                  |-> u,
     title                |-> "title",
     price                |-> Some(150000),
     monthly_rent         |-> rent,
     annual_rent          |-> IF rent = None THEN None ELSE Some(12 * Val(rent)),
     monthly_charges      |-> None,
     annual_charges       |-> IF rent = None THEN None ELSE Some(0),
     taxe_fonciere_annual |-> IF rent = None THEN None ELSE Some(0),
     gross_yield_pct      |-> IF rent = None THEN None ELSE Some(640),
     net_yield_pct        |-> IF rent = None THEN None ELSE Some(640)]
Listings(u) == {Listing(u, Some(80000)), Listing(u, None)}
ListingKeys == DOMAIN Listing("u1", None)

EmptyDict == [k \in {} |-> None]
(* d[k] = x *)
Put(d, k, x) == [j \in DOMAIN d \cup {k} |-> IF j = k THEN x ELSE d[j]]
(* del d[k] *)
Del(d, k) == [j \in DOMAIN d \ {k} |-> d[j]]
(* the truth value of d.get(k): None and the empty dict are false *)
DictTruthy(o) == o # None /\ DOMAIN Val(o) # {}

(* the cache file: missing, unreadable, or the JSON text of a dict *)
Missing == [state |-> "missing", data |-> EmptyDict]
Corrupt == [state |-> "corrupt", data |-> EmptyDict]
Json(d) == [state |-> "json", data |-> d]

(* lines 35-46: load *)
Load(f) == IF f.state = "json" THEN f.data ELSE EmptyDict

(* lines 48-54: save writes the file, or fails and reports it, leaving the *)
(* file as it was                                                          *)
Save(d, f) == {Json(d), f}

(* lines 56-58 *)
GetProperty(d, u) == IF u \in DOMAIN d THEN Some(d[u]) ELSE None

(* lines 60-63, before the save *)
SetProperty(d, u, rec) == Put(d, u, rec)

(* lines 65-68: prop and 'analysis_ai' in prop *)
HasAnalysis(d, u) ==
    LET prop == GetProperty(d, u)
    IN  IF DictTruthy(prop) THEN Some("analysis_ai" \in DOMAIN Val(prop)) ELSE None

(* lines 70-73 *)
GetAnalysis(d, u) ==
    LET prop == GetProperty(d, u)
    IN  IF DictTruthy(prop) /\ "analysis_ai" \in DOMAIN Val(prop)
        THEN Some(Val(prop)["analysis_ai"]) ELSE None

(* lines 82-85 *)
GetStatus(d, u) ==
    LET prop == GetProperty(d, u)
    IN  IF DictTruthy(prop) /\ "user_status" \in DOMAIN Val(prop)
        THEN Val(prop)["user_status"] ELSE ""

(* SetKey that stores a new dict with the key alone. *)
SetKey_Replace(d, u, k, x) ==
    LET prop == GetProperty(d, u)
    IN  IF DictTruthy(prop) THEN Put(d, u, Put(EmptyDict, k, x)) ELSE d

(* lines 75-80 and 87-92, before the save: prop[k] = x when the URL has a  *)
(* record                                                                  *)
SetKey(d, u, k, x) ==
    LET prop == GetProperty(d, u)
    IN  IF DictTruthy(prop) THEN Put(d, u, Put(Val(prop), k, x)) ELSE d

(* DeleteProperty that empties the cache. *)
DeleteProperty_All(d, u) == IF u \in DOMAIN d THEN EmptyDict ELSE d

(* lines 94-100, before the save *)
DeleteProperty(d, u) == IF u \in DOMAIN d THEN Del(d, u) ELSE d

(* The calls of the methods. *)
Called(op, u, arg) == [op |-> op, url |-> u, arg |-> arg]

CallGetProperty(u) ==
    /\ ret' = GetProperty(data, u)
    /\ call' = Called("get_property", u, None)
    /\ UNCHANGED <<data, cache_file>>

CallSetProperty(u, rec) ==
    /\ data' = SetProperty(data, u, rec)
    /\ cache_file' \in Save(data', cache_file)
    /\ ret' = None
    /\ call' = Called("set_property", u, Some(rec))

CallHasAnalysis(u) ==
    /\ ret' = HasAnalysis(data, u)
    /\ call' = Called("has_analysis", u, None)
    /\ UNCHANGED <<data, cache_file>>

CallGetAnalysis(u) ==
    /\ ret' = GetAnalysis(data, u)
    /\ call' = Called("get_analysis", u, None)
    /\ UNCHANGED <<data, cache_file>>

CallSetAnalysis(u, a) ==
    /\ data' = SetKey(data, u, "analysis_ai", a)
    /\ IF DictTruthy(GetProperty(data, u))
       THEN cache_file' \in Save(data', cache_file)
       ELSE UNCHANGED cache_file
    /\ ret' = None
    /\ call' = Called("set_analysis", u, Some(a))

CallGetStatus(u) ==
    /\ ret' = Some(GetStatus(data, u))
    /\ call' = Called("get_status", u, None)
    /\ UNCHANGED <<data, cache_file>>

CallSetStatus(u, st) ==
    /\ data' = SetKey(data, u, "user_status", st)
    /\ IF DictTruthy(GetProperty(data, u))
       THEN cache_file' \in Save(data', cache_file)
       ELSE UNCHANGED cache_file
    /\ ret' = None
    /\ call' = Called("set_status", u, Some(st))

CallDeleteProperty(u) ==
    /\ data' = DeleteProperty(data, u)
    /\ IF u \in DOMAIN data
       THEN cache_file' \in Save(data', cache_file)
       ELSE UNCHANGED cache_file
    /\ ret' = Some(u \in DOMAIN data)
    /\ call' = Called("delete_property", u, None)

CallSave ==
    /\ cache_file' \in Save(data, cache_file)
    /\ ret' = None
    /\ call' = Called("save", "", None)
    /\ UNCHANGED data

InitCacheIdle ==
    /\ data = EmptyDict /\ cache_file = Missing
    /\ call = Called("", "", None) /\ ret = None

---------------------------------------------------------------------------
(* The interactive scanner: main (lines 455-496), interactive_menu (lines  *)
(* 256-325) and show_property_detail (lines 328-452).  The list properties *)
(* is kept as the set of the URLs of its records.                          *)

(* lines 481 and 313: the records with a price and a monthly rent *)
Listed(d) == {u \in DOMAIN d : Truthy(d[u].price) /\ Truthy(d[u].monthly_rent)}

(* line 469: PropertyCache(args.cache) *)
MainLoad ==
    /\ mpc = "start"
    /\ data' = Load(cache_file)
    /\ mpc' = "loaded"
    /\ UNCHANGED <<cache_file, properties, url>>

(* lines 473-496: an empty cache, or one without a listed record, ends the *)
(* program with sys.exit(1); otherwise the menu starts                     *)
MainCheck ==
    /\ mpc = "loaded"
    /\ IF DOMAIN data = {}
       THEN /\ mpc' = "exit"
            /\ UNCHANGED properties
       ELSE IF Listed(data) = {}
            THEN /\ mpc' = "exit"
                 /\ UNCHANGED properties
            ELSE /\ properties' = Listed(data)
                 /\ mpc' = "menu"
    /\ UNCHANGED <<data, cache_file, url>>

(* lines 290-292 *)
MenuQuit ==
    /\ mpc = "menu"
    /\ mpc' = "quit"
    /\ UNCHANGED <<data, cache_file, properties, url>>

(* lines 293-316 with parse_properties, lines 142-174: each URL found that *)
(* has no cached record is parsed and stored, unless parse_ad_page raises; *)
(* the cache is saved after each record and at the end                     *)
MenuScrape ==
    /\ mpc = "menu"
    /\ \E ad_urls \in SUBSET Urls :
          IF ad_urls = {}
          THEN UNCHANGED <<data, cache_file, properties>>
          ELSE \E new \in SUBSET {u \in ad_urls : ~DictTruthy(GetProperty(data, u))} :
                  \E parsed \in [new -> BOOLEAN] :
                     /\ data' = [u \in DOMAIN data \cup new |->
                                    IF u \in new
                                    THEN Listing(u, IF parsed[u] THEN Some(80000) ELSE None)
                                    ELSE data[u]]
                     /\ cache_file' \in
                           {cache_file} \cup
                           {Json([u \in DOMAIN data \cup part |-> data'[u]]) :
                               part \in SUBSET new}
                     /\ properties' = Listed(data')
    /\ UNCHANGED <<mpc, url>>

(* lines 318-325 and 328-355: a number of the list opens the detail view   *)
(* of that record; without the AI client or its key the view returns at    *)
(* once                                                                    *)
MenuSelect ==
    /\ mpc = "menu"
    /\ \E u \in properties :
          \/ /\ mpc' = "detail"
             /\ url' = Some(u)
          \/ UNCHANGED <<mpc, url>>
    /\ UNCHANGED <<data, cache_file, properties>>

(* lines 367-377, choice 5, and choice 2 when no analysis was generated:   *)
(* nothing is stored                                                       *)
DetailShow ==
    /\ mpc = "detail"
    /\ mpc' = "menu"
    /\ url' = None
    /\ UNCHANGED <<data, cache_file, properties>>

(* lines 379-400: choice 2 stores the analysis that was generated *)
DetailAnalyse ==
    /\ mpc = "detail"
    /\ \E a \in Analyses :
          /\ data' = SetKey(data, Val(url), "analysis_ai", a)
          /\ IF DictTruthy(GetProperty(data, Val(url)))
             THEN cache_file' \in Save(data', cache_file)
             ELSE UNCHANGED cache_file
    /\ mpc' = "menu"
    /\ url' = None
    /\ UNCHANGED properties

(* lines 402-421: choice 3 *)
DetailStatus ==
    /\ mpc = "detail"
    /\ \E st \in StatusMarks :
          /\ data' = SetKey(data, Val(url), "user_status", st)
          /\ IF DictTruthy(GetProperty(data, Val(url)))
             THEN cache_file' \in Save(data', cache_file)
             ELSE UNCHANGED cache_file
    /\ mpc' = "menu"
    /\ url' = None
    /\ UNCHANGED properties

(* lines 423-437: choice 4 first deletes the record *)
RefreshDelete ==
    /\ mpc = "detail"
    /\ data' = DeleteProperty(data, Val(url))
    /\ IF Val(url) \in DOMAIN data
       THEN cache_file' \in Save(data', cache_file)
       ELSE UNCHANGED cache_file
    /\ mpc' = "refresh"
    /\ UNCHANGED <<properties, url>>

(* lines 438-450: then parse_ad_page runs; its record is stored, or its    *)
(* exception leaves show_property_detail: the menu catches a ValueError    *)
(* (lines 318-325), any other exception ends the program                   *)
RefreshParse ==
    /\ mpc = "refresh"
    /\ \/ \E rec \in Listings(Val(url)) :
             /\ data' = SetProperty(data, Val(url), rec)
             /\ cache_file' \in Save(data', cache_file)
             /\ mpc' = "menu"
       \/ /\ mpc' \in {"menu", "crashed"}
          /\ UNCHANGED <<data, cache_file>>
    /\ url' = None
    /\ UNCHANGED properties

InitScannerIdle == mpc = "idle" /\ properties = {} /\ url = None

InitPage ==
    /\ pc = "price_json"
    /\ price_list = None /\ m = None
    /\ price = None /\ loyer = None /\ monthly_rent = None
    /\ taxe = None /\ taxe_period = "unknown"
    /\ charges = None /\ charges_period = "unknown"
    /\ monthly_charges = None /\ taxe_annual = None
    /\ record = None /\ snippet = None

InitAmountIdle == raw = <<>> /\ v = <<>> /\ amount = None /\ apc = "idle"

Init ==
    /\ InitPage
    /\ InitAmountIdle
    /\ InitIdle
    /\ InitFetchIdle
    /\ InitCacheIdle
    /\ InitScannerIdle

Next ==
    \/ (PriceStructured /\ UNCHANGED <<snippet, avars, lvars, fvars, cvars, mvars>>)
    \/ (PriceKeyword(1) /\ UNCHANGED <<snippet, avars, lvars, fvars, cvars, mvars>>)
    \/ (PriceKeyword(2) /\ UNCHANGED <<snippet, avars, lvars, fvars, cvars, mvars>>)
    \/ (PriceKeyword(3) /\ UNCHANGED <<snippet, avars, lvars, fvars, cvars, mvars>>)
    \/ (PriceFallback /\ UNCHANGED <<snippet, avars, lvars, fvars, cvars, mvars>>)
    \/ (Rule1 /\ UNCHANGED <<snippet, avars, lvars, fvars, cvars, mvars>>)
    \/ (Rule2 /\ UNCHANGED <<snippet, avars, lvars, fvars, cvars, mvars>>)
    \/ (Rule3 /\ UNCHANGED <<snippet, avars, lvars, fvars, cvars, mvars>>)
    \/ (Rule4Search /\ UNCHANGED <<avars, lvars, fvars, cvars, mvars>>)
    \/ (Rule4Classify /\ UNCHANGED <<avars, lvars, fvars, cvars, mvars>>)
    \/ (Rule5 /\ UNCHANGED <<snippet, avars, lvars, fvars, cvars, mvars>>)
    \/ (Rule6 /\ UNCHANGED <<snippet, avars, lvars, fvars, cvars, mvars>>)
    \/ (TaxeSearch /\ UNCHANGED <<snippet, avars, lvars, fvars, cvars, mvars>>)
    \/ (ChargesPattern1 /\ UNCHANGED <<snippet, avars, lvars, fvars, cvars, mvars>>)
    \/ (ChargesPattern2 /\ UNCHANGED <<snippet, avars, lvars, fvars, cvars, mvars>>)
    \/ (ChargesKeyword(1) /\ UNCHANGED <<snippet, avars, lvars, fvars, cvars, mvars>>)
    \/ (ChargesKeyword(2) /\ UNCHANGED <<snippet, avars, lvars, fvars, cvars, mvars>>)
    \/ (ChargesKeyword(3) /\ UNCHANGED <<snippet, avars, lvars, fvars, cvars, mvars>>)
    \/ (ChargesKeyword(4) /\ UNCHANGED <<snippet, avars, lvars, fvars, cvars, mvars>>)
    \/ (Normalize /\ UNCHANGED <<snippet, avars, lvars, fvars, cvars, mvars>>)
    \/ (Finish /\ UNCHANGED <<snippet, avars, lvars, fvars, cvars, mvars>>)
    \/ (Call /\ UNCHANGED <<avars, lvars, fvars, cvars, mvars>>)

Spec == Init /\ [][Next]_vars

InitAmount ==
    /\ raw \in Strings \cup Literals
    /\ v = raw
    /\ amount = None
    /\ apc = "strip"
    /\ InitPage
    /\ InitIdle
    /\ InitFetchIdle
    /\ InitCacheIdle
    /\ InitScannerIdle

NextAmount ==
    \/ (AmountStrip /\ UNCHANGED <<pvars, lvars, fvars, cvars, mvars>>)
    \/ (AmountClean /\ UNCHANGED <<pvars, lvars, fvars, cvars, mvars>>)
    \/ (AmountFloat /\ UNCHANGED <<pvars, lvars, fvars, cvars, mvars>>)

SpecAmount == InitAmount /\ [][NextAmount]_vars

InitLocate ==
    /\ text \in Texts \cup {PriceFirst, RentFirst}
    /\ strict \in BOOLEAN
    /\ start = 0 /\ idx = 0
    /\ search_snippet = [lo |-> 0, hi |-> 0]
    /\ match = None /\ located = NoHit /\ snip_period = "unknown"
    /\ lpc = "find"
    /\ InitPage
    /\ InitAmountIdle
    /\ InitFetchIdle
    /\ InitCacheIdle
    /\ InitScannerIdle

NextLocate ==
    \/ (LocateFind /\ UNCHANGED <<pvars, avars, fvars, cvars, mvars>>)
    \/ (LocateSearch /\ UNCHANGED <<pvars, avars, fvars, cvars, mvars>>)
    \/ (Detect /\ UNCHANGED <<pvars, avars, fvars, cvars, mvars>>)

SpecLocate == InitLocate /\ [][NextLocate]_vars

InitFetch ==
    /\ fpc = "playwright"
    /\ playwright_render \in BOOLEAN
    /\ resp = None /\ attempt = 0 /\ sent = <<>>
    /\ InitPage
    /\ InitAmountIdle
    /\ InitIdle
    /\ InitCacheIdle
    /\ InitScannerIdle

NextFetch ==
    \/ (FetchPlaywright /\ UNCHANGED <<pvars, avars, lvars, cvars, mvars>>)
    \/ (FirstGet /\ UNCHANGED <<pvars, avars, lvars, cvars, mvars>>)
    \/ (Retry /\ UNCHANGED <<pvars, avars, lvars, cvars, mvars>>)
    \/ (FallbackGet /\ UNCHANGED <<pvars, avars, lvars, cvars, mvars>>)
    \/ (RaiseForStatus /\ UNCHANGED <<pvars, avars, lvars, cvars, mvars>>)

SpecFetch == InitFetch /\ [][NextFetch]_vars

(* The cache of a new PropertyCache whose file was missing, and any        *)
(* sequence of calls of its methods.                                       *)
InitCache ==
    /\ InitCacheIdle
    /\ InitScannerIdle
    /\ InitPage
    /\ InitAmountIdle
    /\ InitIdle
    /\ InitFetchIdle

NextCache ==
    \/ \E u \in Urls : CallGetProperty(u) /\ UNCHANGED <<pvars, avars, lvars, fvars, mvars>>
    \/ \E u \in Urls : \E rec \in Listings(u) :
          CallSetProperty(u, rec) /\ UNCHANGED <<pvars, avars, lvars, fvars, mvars>>
    \/ \E u \in Urls : CallHasAnalysis(u) /\ UNCHANGED <<pvars, avars, lvars, fvars, mvars>>
    \/ \E u \in Urls : CallGetAnalysis(u) /\ UNCHANGED <<pvars, avars, lvars, fvars, mvars>>
    \/ \E u \in Urls : \E a \in Analyses :
          CallSetAnalysis(u, a) /\ UNCHANGED <<pvars, avars, lvars, fvars, mvars>>
    \/ \E u \in Urls : CallGetStatus(u) /\ UNCHANGED <<pvars, avars, lvars, fvars, mvars>>
    \/ \E u \in Urls : \E st \in StatusMarks :
          CallSetStatus(u, st) /\ UNCHANGED <<pvars, avars, lvars, fvars, mvars>>
    \/ \E u \in Urls : CallDeleteProperty(u) /\ UNCHANGED <<pvars, avars, lvars, fvars, mvars>>
    \/ (CallSave /\ UNCHANGED <<pvars, avars, lvars, fvars, mvars>>)

SpecCache == InitCache /\ [][NextCache]_vars

(* The stored records a cache file can hold. *)
Stored(u) ==
    UNION {UNION {{l, Put(l, "analysis_ai", a), Put(l, "user_status", st),
                   Put(Put(l, "analysis_ai", a), "user_status", st)} :
                     <<a, st>> \in Analyses \X StatusMarks} : l \in Listings(u)}
CacheFiles ==
    {Missing, Corrupt} \cup
    {Json(d) : d \in UNION {{f \in [us -> UNION {Stored(u) : u \in Urls}] :
                                  \A u \in us : f[u].url = u} : us \in SUBSET Urls}}

(* The interactive scanner started on any cache file. *)
InitScanner ==
    /\ mpc = "start" /\ properties = {} /\ url = None
    /\ cache_file \in CacheFiles
    /\ data = EmptyDict
    /\ call = Called("", "", None) /\ ret = None
    /\ InitPage
    /\ InitAmountIdle
    /\ InitIdle
    /\ InitFetchIdle

NextScanner ==
    \/ (MainLoad /\ UNCHANGED <<pvars, avars, lvars, fvars, call, ret>>)
    \/ (MainCheck /\ UNCHANGED <<pvars, avars, lvars, fvars, call, ret>>)
    \/ (MenuQuit /\ UNCHANGED <<pvars, avars, lvars, fvars, call, ret>>)
    \/ (MenuScrape /\ UNCHANGED <<pvars, avars, lvars, fvars, call, ret>>)
    \/ (MenuSelect /\ UNCHANGED <<pvars, avars, lvars, fvars, call, ret>>)
    \/ (DetailShow /\ UNCHANGED <<pvars, avars, lvars, fvars, call, ret>>)
    \/ (DetailAnalyse /\ UNCHANGED <<pvars, avars, lvars, fvars, call, ret>>)
    \/ (DetailStatus /\ UNCHANGED <<pvars, avars, lvars, fvars, call, ret>>)
    \/ (RefreshDelete /\ UNCHANGED <<pvars, avars, lvars, fvars, call, ret>>)
    \/ (RefreshParse /\ UNCHANGED <<pvars, avars, lvars, fvars, call, ret>>)

SpecScanner == InitScanner /\ [][NextScanner]_vars

---------------------------------------------------------------------------
(* Properties of the returned record (Spec).                               *)

Done == pc = "done"
Present(o) == o # None
(* the value of an optional amount, an absent one counted as 0 *)
OrZero(o) == IF o = None THEN 0 ELSE Val(o)
(* h is an integer nearest to n/d, d # 0 *)
IsRounded(h, n, d) == 2 * Abs(h * d - n) <= Abs(d)

(* C1, as stated: in every record with monthly_rent present, annual_rent   *)
(* is present and equals round(monthly_rent * 12, 2) for the stored        *)
(* monthly_rent.  Violated: an annual rent of 10 000.00 is stored with the *)
(* monthly rent 833.33.                                                    *)
C1_AnnualIsTwelveStoredMonthly ==
    (Done /\ Present(record.monthly_rent)) =>
        /\ Present(record.annual_rent)
        /\ Val(record.annual_rent) = Val(record.monthly_rent) * 12

(* C1, amended: in every record with monthly_rent present, annual_rent is  *)
(* present and is 12 times the monthly rent before its rounding; it is 12  *)
(* times the stored monthly_rent when that rounding changed nothing, and   *)
(* never more than 0.06 away from it.                                      *)
C1_AnnualIsTwelveUnroundedMonthly ==
    (Done /\ Present(record.monthly_rent)) =>
        /\ Present(record.annual_rent)
        /\ Present(monthly_rent)
        /\ Whole(Val(record.annual_rent)) = 12 * Val(monthly_rent)
        /\ Abs(Val(record.annual_rent) - Val(record.monthly_rent) * 12) <= 6
        /\ (Val(monthly_rent) % 12 = 0 =>
               Val(record.annual_rent) = Val(record.monthly_rent) * 12)

(* C1, witness: a record whose monthly rent was rounded. *)
C1_RoundedMonthlyRent ==
    /\ Done
    /\ Present(record.monthly_rent)
    /\ Val(monthly_rent) % 12 # 0

(* C2: in every record with price and annual_rent present, the stored      *)
(* gross_yield_pct lies in (0, 20].  Violated: a negative structured price *)
(* gives a negative yield, and a very large price a yield stored as 0.0.   *)
C2_GrossYieldInRange ==
    (Done /\ Present(record.price) /\ Present(record.annual_rent)
          /\ Present(record.gross_yield_pct)) =>
        /\ 0 < Val(record.gross_yield_pct)
        /\ Val(record.gross_yield_pct) <= MaxYield * 100

(* C3: a record carries a gross or a net yield only if it carries both a   *)
(* price and an annual rent.                                               *)
C3_YieldsNeedPriceAndRent ==
    (Done /\ (Present(record.gross_yield_pct) \/ Present(record.net_yield_pct))) =>
        (Present(record.price) /\ Present(record.annual_rent))

(* C3, witness: a record with both yields. *)
C3_RecordWithYields ==
    /\ Done
    /\ Present(record.gross_yield_pct)
    /\ Present(record.net_yield_pct)

(* C4: when the detected rent gives a gross yield above 20 percent of the  *)
(* price, the record has no monthly_rent, no annual_rent and no yield.     *)
C4_RejectedRentIsAbsent ==
    (Done /\ Present(price) /\ Present(monthly_rent)
          /\ Val(price) > 0 /\ Val(monthly_rent) > MaxYield * Val(price)) =>
        /\ record.monthly_rent = None
        /\ record.annual_rent = None
        /\ record.gross_yield_pct = None
        /\ record.net_yield_pct = None

(* C4, witness: a call that ended with a rent above 20 percent of the      *)
(* price.                                                                  *)
C4_RentAboveMaxYield ==
    /\ Done
    /\ Present(price) /\ Present(monthly_rent)
    /\ Val(price) > 0 /\ Val(monthly_rent) > MaxYield * Val(price)

(* C5: every monetary field of a record is absent or non-negative, and     *)
(* annual_charges and taxe_fonciere_annual are absent when no charges and  *)
(* no property tax were found.  Violated: with a yield computed they are   *)
(* stored as 0.0.                                                          *)
C5_UndeterminedIsAbsent ==
    Done =>
        /\ \A f \in {"price", "monthly_rent", "annual_rent", "monthly_charges",
                     "annual_charges", "taxe_fonciere_annual"} :
              Present(record[f]) => Val(record[f]) >= 0
        /\ (charges = None => record.annual_charges = None)
        /\ (taxe = None => record.taxe_fonciere_annual = None)

(* C6: annual_charges is present in a record exactly when monthly_charges  *)
(* is, and is then 12 times the monthly charges.  Violated: annual_charges *)
(* is 0.0 beside an absent monthly_charges.                                *)
C6_AnnualChargesFromMonthly ==
    Done =>
        /\ Present(record.annual_charges) <=> Present(record.monthly_charges)
        /\ Present(record.annual_charges) =>
              Whole(Val(record.annual_charges)) = 12 * Val(monthly_charges)

---------------------------------------------------------------------------
(* Properties of parse_amount (SpecAmount).                                *)

Returned == apc = "ret"

(* C9: parse_amount gives 4524.92 for "4 524,92", 3125.0 for "3.125",      *)
(* 1234.56 for "1234.56" and 12.5 for "12,5".                              *)
C9_DocumentedAmounts ==
    Returned =>
        /\ raw = <<"4", " ", "5", "2", "4", ",", "9", "2">> => amount = Some(<<452492, 2>>)
        /\ raw = <<"3", ".", "1", "2", "5">> => amount = Some(<<3125, 0>>)
        /\ raw = <<"1", "2", "3", "4", ".", "5", "6">> => amount = Some(<<123456, 2>>)
        /\ raw = <<"1", "2", ",", "5">> => amount = Some(<<125, 1>>)

(* C9, witness: parse_amount has returned for "3.125". *)
C9_ThousandsDotParsed ==
    /\ Returned
    /\ raw = <<"3", ".", "1", "2", "5">>
    /\ amount = Some(<<3125, 0>>)

IsSeparator(c) == c = "," \/ c = "."
(* the last separator of s, 0 when it has none *)
LastSeparator(s) ==
    IF \E i \in 1..Len(s) : IsSeparator(s[i])
    THEN CHOOSE i \in 1..Len(s) :
            IsSeparator(s[i]) /\ \A j \in (i + 1)..Len(s) : ~IsSeparator(s[j])
    ELSE 0
(* A digit/separator string: it starts with a digit, separators and spaces *)
(* stand between digits, and 1 or 2 digits follow the last separator.      *)
DecimalShaped(s) ==
    /\ Len(s) >= 3
    /\ \A i \in 1..Len(s) : s[i] \in Digits \/ IsSeparator(s[i]) \/ IsSpace(s[i])
    /\ s[1] \in Digits
    /\ \A i \in 2..Len(s) : s[i] \notin Digits => s[i - 1] \in Digits
    /\ LastSeparator(s) # 0
    /\ Len(s) - LastSeparator(s) \in 1..2
    /\ \A j \in (LastSeparator(s) + 1)..Len(s) : s[j] \in Digits
DigitsOf(s) == SelectSeq(s, LAMBDA c : c \in Digits)

(* C10: for a string whose last separator is followed by 1 or 2 digits,    *)
(* parse_amount gives the digits before that separator as the integer part *)
(* and the digits after it as the fraction.  Violated: None is returned    *)
(* when the separator character occurs earlier too ("1,234,56").           *)
C10_LastSeparatorIsDecimal ==
    (Returned /\ DecimalShaped(raw)) =>
        amount = Some(Decimal(DigitsOf(SubSeq(raw, 1, LastSeparator(raw))),
                              SubSeq(raw, LastSeparator(raw) + 1, Len(raw))))

---------------------------------------------------------------------------
(* Properties of the cascades of parse_ad_page (Spec).                     *)

(* One step of the rent cascade: the rules run in the order 1 to 6; a rule *)
(* leaves a rent found by an earlier rule alone; otherwise it gives the    *)
(* rent when its match m is in range and leaves the rent absent when m is  *)
(* no match, unparseable or out of range.                                  *)
C14_Step ==
    /\ (pc = "rule1" => pc' = "rule2") /\ (pc = "rule2" => pc' = "rule3")
    /\ (pc = "rule3" => pc' = "rule4") /\ (pc = "rule4" => pc' = "rule4_period")
    /\ (pc = "rule4_period" => pc' = "rule5")
    /\ (pc = "rule5" => pc' = "rule6") /\ (pc = "rule6" => pc' = "taxe")
    /\ (pc \in {"rule1", "rule2", "rule3", "rule4", "rule4_period", "rule5", "rule6"}
          /\ monthly_rent # None) => monthly_rent' = monthly_rent
    /\ (pc = "rule4" => monthly_rent' = monthly_rent)
    /\ (pc \in {"rule1", "rule3"} /\ monthly_rent = None) =>
          monthly_rent' =
             IF m' # None /\ Truthy(Val(m')) /\ Cents(AnnualMin) <= Val(Val(m'))
                          /\ Val(Val(m')) <= Cents(AnnualMax)
             THEN Some(Twelfth(Val(Val(m')))) ELSE None
    /\ (pc \in {"rule2", "rule5", "rule6"} /\ monthly_rent = None) =>
          monthly_rent' =
             IF m' # None /\ Truthy(Val(m')) /\ Cents(MonthlyMin) <= Val(Val(m'))
                          /\ Val(Val(m')) <= Cents(MonthlyMax)
             THEN Some(Whole(Val(Val(m')))) ELSE None
    /\ (pc = "rule4_period" /\ monthly_rent = None) =>
          \/ monthly_rent' = None
          \/ /\ m # None /\ Truthy(Val(m))
             /\ Cents(AnnualMin) <= Val(Val(m)) /\ Val(Val(m)) <= Cents(AnnualMax)
             /\ monthly_rent' = Some(Twelfth(Val(Val(m))))
          \/ /\ m # None /\ Truthy(Val(m))
             /\ Cents(MonthlyMin) <= Val(Val(m)) /\ Val(Val(m)) <= Cents(MonthlyMax)
             /\ monthly_rent' = Some(Whole(Val(Val(m))))

(* C14: the rent rules 1 to 6 run in that order and the monthly rent is    *)
(* the value of the lowest-numbered rule whose match is in range; a rule   *)
(* whose match is out of range or unparseable leaves the rent to the later *)
(* rules, and the rent is absent when no rule gives an in-range value.     *)
C14_LowestInRangeRuleWins == [][C14_Step]_vars

(* C14, witness: rule 2 matched, its amount was rejected, and rule 3 is    *)
(* about to run.                                                           *)
C14_RejectedMatchThenNextRule ==
    /\ pc = "rule3"
    /\ m # None
    /\ monthly_rent = None

(* C15: in every record with monthly_rent present, monthly_rent lies in    *)
(* [300, 3000] and annual_rent in [3600, 36000].                           *)
C15_RentWithinLimits ==
    (Done /\ Present(record.monthly_rent)) =>
        /\ Cents(MonthlyMin) <= Val(record.monthly_rent)
        /\ Val(record.monthly_rent) <= Cents(MonthlyMax)
        /\ Present(record.annual_rent)
        /\ Cents(AnnualMin) <= Val(record.annual_rent)
        /\ Val(record.annual_rent) <= Cents(AnnualMax)

(* C15, witness: a record with the largest monthly rent. *)
C15_LargestRent ==
    /\ Done
    /\ record.monthly_rent = Some(Cents(MonthlyMax))
    /\ record.annual_rent = Some(Cents(AnnualMax))

(* C16: when the ad data carries a price, the record's price is that       *)
(* price.                                                                  *)
C16_StructuredPriceWins ==
    (Done /\ price_list # None) => record.price = price_list

(* C16, witness: a record made from ad data whose price is 0, which the    *)
(* keyword loop would replace if it ran.                                   *)
C16_StructuredZeroPrice ==
    /\ Done
    /\ price_list = Some(0)
    /\ record.price = Some(0)

(* C17: without a price in the ad data, the first keyword that gives an    *)
(* amount fixes the price, whatever its value; the largest amount above    *)
(* 10 000 is taken only when no keyword gave one.  Violated: an amount of  *)
(* 0 found by a keyword does not end the loop, and a later keyword or the  *)
(* fallback replaces it.                                                   *)
C17_FirstKeywordAmountIsPrice ==
    [][price_list = None =>
          /\ (pc \in {"price_kw2", "price_kw3", "price_max"} /\ price # None) =>
                price' = price
          /\ (pc = "price_max" /\ price = None) =>
                (price' = None \/ Val(price') > MinSalePrice)]_vars

(* One step of the charges cascade and of its normalisation. *)
C18_Step ==
    /\ (pc = "charges" /\ m' # None) => charges' = Val(m')
    /\ (pc = "charges_b" /\ m # None) =>
          (m' = m /\ charges' = charges /\ charges_period' = charges_period)
    /\ (pc = "charges_b" /\ m = None /\ m' # None) => charges' = Val(m')
    /\ (pc \in {"charges_kw1", "charges_kw2", "charges_kw3", "charges_kw4"}
          /\ (m # None \/ charges # None)) =>
          (charges' = charges /\ charges_period' = charges_period)
    /\ (pc = "normalize") =>
          monthly_charges' =
             IF charges = None THEN None
             ELSE IF charges_period = "annual" THEN Some(Twelfth(Val(charges)))
                  ELSE Some(Whole(Val(charges)))
    /\ (pc = "yield") =>
          /\ Present(record'.monthly_charges) <=> Present(monthly_charges)
          /\ Present(monthly_charges) =>
                IsRounded(Val(record'.monthly_charges), Val(monthly_charges), 12)

(* C18: the charges are those of pattern 1 when it matches, else those of  *)
(* pattern 2, else those of the first keyword search that gives an amount; *)
(* monthly_charges is that value divided by 12 when the period of its      *)
(* snippet is annual and the value itself otherwise.                       *)
C18_ChargesCascade == [][C18_Step]_vars

(* C18, witness: annual charges of 960.00 stored as 80.00 a month. *)
C18_AnnualChargesDivided ==
    /\ Done
    /\ charges = Some(96000)
    /\ charges_period = "annual"
    /\ record.monthly_charges = Some(8000)

(* C19: taxe_fonciere_annual is the amount found after the property-tax    *)
(* keyword, multiplied by 12 exactly when its period is monthly, and is    *)
(* absent when no amount was found.  Violated: with a yield computed and   *)
(* no amount found it is 0.0.                                              *)
C19_TaxeFromKeywordSearch ==
    Done =>
        record.taxe_fonciere_annual =
           IF taxe = None THEN None
           ELSE IF taxe_period = "monthly" THEN Some(12 * Val(taxe))
                ELSE taxe

---------------------------------------------------------------------------
(* Properties of parse_amounts_near_keyword and of                         *)
(* detect_period_from_snippet (SpecLocate).                                *)

LocateReturned == lpc \in {"ret", "done"}

(* C11: in both modes the returned amount starts past the keyword          *)
(* occurrence it was found for.  Violated in lenient mode: the search      *)
(* starts len(keyword) characters into a snippet that begins up to 300     *)
(* characters before the keyword.                                          *)
C11_AmountAfterKeyword ==
    (LocateReturned /\ located.snip # None) =>
        search_snippet.lo + KwLen + Val(match).start >= idx + KwLen

(* the offsets of the keyword occurrences of txt *)
Occurrences(txt) == {Off(txt, j) : j \in {k \in 1..Len(txt) : txt[k] = "kw"}}
(* the parsed first amount of the snippet of the occurrence at i *)
OccurrenceAmount(txt, i, st) ==
    LET sn == Snippet(txt, i, st)
        hit == Search(txt, sn.lo + KwLen, sn.hi)
    IN  IF hit = None THEN None ELSE ParseAmount(Val(hit).group)

(* C12: the value returned is the amount of the first keyword occurrence   *)
(* whose amount parses, and None only when no occurrence has one.          *)
(* Violated: the first occurrence with a match ends the scan even when     *)
(* its amount does not parse.                                              *)
C12_FirstParseableOccurrence ==
    LocateReturned =>
        LET good == {i \in Occurrences(text) :
                        OccurrenceAmount(text, i, strict) # None}
        IN  IF good = {} THEN located.val = None
            ELSE located.val = OccurrenceAmount(text, SetMin(good), strict)

(* C13: the period of a snippet is annual when it holds "par an", "/an" or *)
(* "annuel", else monthly when it holds "par mois", "/mois" or "mois",     *)
(* else unknown.  Violated: the monthly markers are tested first.          *)
C13_AnnualMarkerWins ==
    lpc = "done" =>
        LET s == OrEmpty(located.snip)
        IN  snip_period =
               IF "par an" \in s \/ "/an" \in s \/ "annuel" \in s THEN "annual"
               ELSE IF "par mois" \in s \/ "/mois" \in s \/ "mois" \in s THEN "monthly"
               ELSE "unknown"

(* C20: for the listing with "Prix de vente : 150 000" and "Loyer annuel : *)
(* 9 600", in either order, the price keyword search gives 150 000.        *)
(* Violated: with the rent first it gives 9 600.                           *)
C20_ScenarioPrice ==
    (LocateReturned /\ ~strict /\ text \in {PriceFirst, RentFirst}) =>
        located.val = Some(<<150000, 0>>)

(* the token of txt that holds the character at offset o *)
TokenAt(txt, o) ==
    txt[CHOOSE j \in 1..Len(txt) : Off(txt, j) <= o /\ o < Off(txt, j) + Width(txt[j])]

(* C21: for the listing with "charges 80 € par mois" and "taxe foncière :  *)
(* 1200 €", in either order, the strict property-tax search gives 1200 and *)
(* the amount is kept as an annual one.  Violated: the search gives 200,   *)
(* and with the tax first the snippet holds "par mois", so the amount is   *)
(* multiplied by 12.                                                       *)
C21_ScenarioTaxe ==
    (lpc = "done" /\ strict /\ text \in {ChargesFirst, TaxFirst}) =>
        /\ located.val = Some(<<1200, 0>>)
        /\ snip_period # "monthly"

(* C28: an amount found in the unbroken run of digits "1200 €" has the     *)
(* value of the whole run.  Violated: AMOUNT_RE starts with one to three   *)
(* digits, so the match is "200 €", the last three digits of the run.      *)
C28_WholeDigitRun ==
    (LocateReturned /\ located.snip # None
        /\ TokenAt(text, search_snippet.lo + KwLen + Val(match).start) = "a1200") =>
        located.val = Some(<<1200, 0>>)

---------------------------------------------------------------------------
(* Further properties of the cascades (Spec).                              *)

(* C22: an amount that fails to normalize costs only its own rule: when    *)
(* charges pattern 1 has matched and parse_amount gave None, pattern 2 is  *)
(* still searched and can supply the charges.  Violated: pattern 2 and the *)
(* keyword searches are in the else branch of "if m", so a match of        *)
(* pattern 1 skips them whatever its amount.                               *)
C22_FailedAmountLetsNextRuleRun ==
    (pc = "charges_b" /\ m # None /\ charges = None) =>
        ENABLED (ChargesPattern2 /\ charges' # None)

(* C26: rule 4 classifies its amount by detect_period_from_snippet: the    *)
(* amount is checked against the annual range and divided by 12 exactly    *)
(* when the function returns annual for the rule's snippet, and checked    *)
(* against the monthly range otherwise.  Violated: the rule tests the      *)
(* annual markers itself, and the function tests the monthly markers       *)
(* first, so they disagree on a snippet with "annuel" and "mois".          *)
C26_Step ==
    (pc = "rule4_period" /\ monthly_rent = None /\ m # None) =>
        monthly_rent' =
           IF DetectPeriod(Val(snippet)) = "annual"
           THEN IF Truthy(Val(m)) /\ Cents(AnnualMin) <= Val(Val(m))
                                  /\ Val(Val(m)) <= Cents(AnnualMax)
                THEN Some(Twelfth(Val(Val(m)))) ELSE None
           ELSE IF Truthy(Val(m)) /\ Cents(MonthlyMin) <= Val(Val(m))
                                  /\ Val(Val(m)) <= Cents(MonthlyMax)
                THEN Some(Whole(Val(Val(m)))) ELSE None
C26_Rule4UsesPeriodDetector == [][C26_Step]_vars

(* C30: every returned record with a present, non-zero price and a present *)
(* monthly_rent has gross_yield_pct and net_yield_pct present.             *)
C30_ListedRecordHasYields ==
    (Done /\ Present(record.price) /\ Val(record.price) # 0
          /\ Present(record.monthly_rent)) =>
        (Present(record.gross_yield_pct) /\ Present(record.net_yield_pct))

(* C30, witness: a record with a negative price and a rent, found without  *)
(* charges or property tax.                                                *)
C30_NegativePriceWithRent ==
    /\ Done
    /\ Present(record.price) /\ Val(record.price) < 0
    /\ Present(record.monthly_rent)
    /\ charges = None /\ taxe = None

---------------------------------------------------------------------------
(* Properties of fetch (SpecFetch).                                        *)

(* C25: when the first response has status 403, at most two further GET    *)
(* requests are sent, and no GET follows a retry that returned 200.        *)
(* Violated: when the last retry raises, resp is None after the loop and   *)
(* the GET of line 108 is sent as well, the third after the 403.           *)
C25_AtMostTwoRetries ==
    (sent # <<>> /\ sent[1].resp = Some(403)) =>
        /\ Len(sent) <= 1 + MaxRetries
        /\ \A i \in 2..Len(sent) : sent[i].resp = Some(200) => i = Len(sent)

---------------------------------------------------------------------------
(* Properties of PropertyCache (SpecCache).                                *)

(* the listing fields of a stored record *)
Fields(rec) == [k \in ListingKeys \cap DOMAIN rec |-> rec[k]]

(* One call and the listing fields: a call other than set_property and     *)
(* delete_property keeps every record and its listing fields, and the      *)
(* listing fields of a URL that keeps a record change only in a            *)
(* set_property for that URL.                                              *)
C23_Step ==
    \A u \in DOMAIN data :
       /\ call'.op \notin {"set_property", "delete_property"} =>
             (u \in DOMAIN data' /\ Fields(data'[u]) = Fields(data[u]))
       /\ (u \in DOMAIN data' /\ Fields(data'[u]) # Fields(data[u])) =>
             (call'.op = "set_property" /\ call'.url = u)

(* C23: once a record is stored, set_analysis, set_status, the getters,    *)
(* has_analysis and save never change its listing fields; they change for  *)
(* a URL only through set_property with a new record.                      *)
C23_ListingFieldsFrozen == [][C23_Step]_vars

(* C23, witness: a record that got an analysis and then a status, with a   *)
(* rent among its listing fields.                                          *)
C23_AnnotatedRecord ==
    /\ call.op = "set_status"
    /\ call.url \in DOMAIN data
    /\ {"analysis_ai", "user_status"} \subseteq DOMAIN data[call.url]
    /\ data[call.url].monthly_rent # None

(* One call and the map: set_property(u, rec) makes get_property(u) return *)
(* rec, delete_property(u) makes it return None and itself returns whether *)
(* u had a record, get_property returns the record of the map, and a call  *)
(* for one URL leaves get_property of every other URL as it was.           *)
C24_Step ==
    /\ call'.op = "set_property" =>
          /\ GetProperty(data', call'.url) = call'.arg
          /\ \A w \in Urls \ {call'.url} : GetProperty(data', w) = GetProperty(data, w)
    /\ call'.op = "delete_property" =>
          /\ GetProperty(data', call'.url) = None
          /\ ret' = Some(GetProperty(data, call'.url) # None)
          /\ \A w \in Urls \ {call'.url} : GetProperty(data', w) = GetProperty(data, w)
    /\ call'.op = "get_property" =>
          /\ ret' = GetProperty(data, call'.url)
          /\ \A w \in Urls : GetProperty(data', w) = GetProperty(data, w)

(* C24: the cache is a map by URL: get_property(u) returns the record of   *)
(* the last set_property(u, .) not followed by delete_property(u), None    *)
(* otherwise; a call for one URL leaves the other URLs alone;              *)
(* delete_property returns True exactly when the URL had a record.         *)
C24_MapByUrl == [][C24_Step]_vars

(* C24, witness: delete_property returned True for a URL while the other   *)
(* URL keeps its record.                                                   *)
C24_DeletedOneOfTwo ==
    /\ call.op = "delete_property"
    /\ ret = Some(TRUE)
    /\ DOMAIN data = Urls \ {call.url}

---------------------------------------------------------------------------
(* Properties of the interactive scanner (SpecScanner).                    *)

(* C27: started on an empty or missing cache file, the scanner reaches the *)
(* menu: it does not end in main before the menu.  Violated: main calls    *)
(* sys.exit(1) when the loaded cache is empty (lines 473-475).             *)
C27_EmptyCacheReachesMenu ==
    ~(mpc = "exit" /\ Load(cache_file) = EmptyDict)

(* C29: after the refresh of a record, the cache has a record for its URL, *)
(* in memory and in the cache file.  Violated: the record is deleted       *)
(* before parse_ad_page runs, and nothing restores it when parse_ad_page   *)
(* raises.                                                                 *)
C29_Step ==
    mpc = "refresh" =>
        /\ GetProperty(data', Val(url)) # None
        /\ GetProperty(Load(cache_file'), Val(url)) # None
C29_RefreshKeepsRecord == [][C29_Step]_vars

=============================================================================
